------------------------------ MODULE Spec2Model ------------------------------
(***************************************************************************)
(* Model of the procedural terrain generator of OpenFrontIO                *)
(* (src/core/game/GeneratedMapLoader.ts), its parameter store              *)
(* (GeneratedParams) and the client's CombinedMapLoader.                   *)
(*                                                                         *)
(* Specifications:                                                         *)
(*   SpecStore       the parameter store with its subscribers;             *)
(*   SpecNations     MapNationCounts: initMapNationCounts, getNationCount; *)
(*   SpecDifficulty  the HumansVsNations difficulty;                       *)
(*   SpecReentrant   the parameter store with subscribers that call it     *)
(*                   from inside their callback;                           *)
(*   SpecPerm        Simplex2D.buildPermutation, at 32-bit width;          *)
(*   SpecModal       WinModal: tick, show, hide and the button timer;      *)
(* and three that share the definitions of the passes:                     *)
(*   Spec      one GeneratedMapLoader and the CombinedMapLoader:           *)
(*             construction, getMapData, the per-instance cache, the       *)
(*             global parameter store;                                     *)
(*   SpecPair  two GeneratedMapLoader instances and the store;             *)
(*   SpecPipe  one run of generateTerrainBin, pass by pass, over inputs    *)
(*             drawn by Init.                                              *)
(*                                                                         *)
(* Numbers.  The source computes the field in floating point.  The model   *)
(* keeps every value an exact rational: a field value is num/den, the      *)
(* land threshold is t/ThrDen, the contrast gamma is k/2 (so v^gamma > c   *)
(* is decided as v^k > c^2).  The simplex lattice noise is a deterministic *)
(* function of (seed, sample point) with values in {-1, +1}: bit d of the  *)
(* seed is the sign at sample point d, so that every sign field over the   *)
(* grid is the field of some seed.                                         *)
(***************************************************************************)
EXTENDS Integers, Sequences, FiniteSets, TLC

-----------------------------------------------------------------------------
(* Bounds of the model (the source's grids are 512x256 and larger).        *)

Width == 3
Height == 3
Width4x == 3
Height4x == 2
Width16x == 2
Height16x == 3
MaxSeed == 511
MaxOctaves == 2
MaxRegion == 2

(* Program constants.                                                      *)
IS_LAND_BIT == 7
SHORELINE_BIT == 6
OCEAN_BIT == 5
MAG_MASK == 31
SeedOffset4x == 101
SeedOffset16x == 202
MaxSmoothingRadius == 2
Lacunarity == 2
PersistenceNum == 3
PersistenceDen == 5
ThrDen == 2

-----------------------------------------------------------------------------
(* State.                                                                  *)

VARIABLES
  pc,        \* SpecPipe: the pass generateTerrainBin has completed
  inp,       \* SpecPipe: the arguments and the store of this run
  out,       \* SpecPipe: the buffer `out`
  enc,       \* SpecPipe: the buffer as the encoding loop left it
  store,     \* Spec: GeneratedParams, the global parameter store
  loaders,   \* Spec: the GeneratedMapLoader instances: made, params, maps
  last,      \* Spec: the last getMapData call: entry point, argument, result,
             \*       terrain runs, whether an earlier call had returned
  first,     \* Spec: per loader, what its first Generated call returned
  genStore,  \* Spec: per loader, the store as it was when it generated
  subscribers,  \* SpecStore: the store's subscribers, in insertion order
  handles,      \* SpecStore: the fns whose subscribe call returned an
                \*            unsubscribe function
  released,     \* SpecStore: the fns whose unsubscribe function was called
                \*            since they last subscribed
  lastOp,       \* SpecStore: the last store operation and what it delivered
  nationCountCache,  \* SpecNations: the module variable, null or the table
  initPromise,       \* SpecNations: the module variable, null or a promise
  load,         \* SpecNations: the runs of loadNationCounts and the
                \*              manifests imported so far
  calls,        \* SpecNations: the promises the initMapNationCounts calls
                \*              returned
  query,        \* SpecNations: the last getNationCount / getNationCountsSync
  diff,         \* SpecDifficulty: the player counts and the difficulty
  builds,       \* SpecPerm: two Simplex2D constructions: seed, perm table
  delivered,    \* SpecReentrant: per fn, the last snapshot it was called
                \*                with
  modal,        \* SpecModal: the WinModal fields, the show() calls awaiting
                \*            loadPatternContent and the timers not yet fired
  modalLog      \* SpecModal: what the calls on the modal so far saw and did

pipeVars == << pc, inp, out, enc >>
loaderVars == << store, loaders, last, first, genStore >>
storeVars == << subscribers, handles, released, lastOp >>
nationVars == << nationCountCache, initPromise, load, calls, query >>
modalVars == << modal, modalLog >>
(* What the loaders and a generation run leave alone.                      *)
sideVars == << storeVars, nationVars, diff, builds, delivered, modalVars >>
(* What the store's operations leave alone.                                *)
storeRest == << loaders, last, first, genStore, pipeVars, nationVars, diff,
               builds, delivered, modalVars >>
vars == << pc, inp, out, enc, store, loaders, last, first, genStore,
           subscribers, handles, released, lastOp,
           nationCountCache, initPromise, load, calls, query, diff,
           builds, delivered, modal, modalLog >>


(* Two GeneratedMapLoader instances, and the client's CombinedMapLoader.   *)
Loaders == {"L1", "L2"}
Combined == "combined"
Entries == Loaders \cup {Combined}


RECURSIVE Pow(_, _)
Pow(b, e) == IF e = 0 THEN 1 ELSE b * Pow(b, e - 1)

Min2(a, b) == IF a < b THEN a ELSE b
Max2(a, b) == IF a > b THEN a ELSE b

-----------------------------------------------------------------------------
(* The terrain byte.                                                       *)

(* 1 << bit                                                                *)
Shl1(bit) ==
  CASE bit = IS_LAND_BIT -> 128
    [] bit = SHORELINE_BIT -> 64
    [] bit = OCEAN_BIT -> 32
    [] OTHER -> Pow(2, bit)

HasBit(cell, bit) == (cell \div Shl1(bit)) % 2 = 1
OrBit(cell, bit) == IF HasBit(cell, bit) THEN cell ELSE cell + Shl1(bit)
Magnitude(cell) == cell % (MAG_MASK + 1)
IsLand(cell) == HasBit(cell, IS_LAND_BIT)
IsOcean(cell) == HasBit(cell, OCEAN_BIT)
IsShoreline(cell) == HasBit(cell, SHORELINE_BIT)
(* (cell & ~MAG_MASK) | (m & MAG_MASK)                                     *)
WithMagnitudeOnly(cell, m) == m % (MAG_MASK + 1)

WithMagnitude(cell, m) == (cell - Magnitude(cell)) + (m % (MAG_MASK + 1))

Cells(w, h) == 0 .. (w * h - 1)
Index(x, y, w) == y * w + x
XOf(i, w) == i % w
YOf(i, w) == i \div w
InBounds(x, y, w, h) == x >= 0 /\ x < w /\ y >= 0 /\ y < h

(* A buffer as a table of its values: f @@ <<>> is f, evaluated once.       *)
(* The value of a singleton set: { e(x) : x \in {v} } computes v once and   *)
(* names it x, as a local constant of the source does.                     *)
Only(S) == CHOOSE r \in S : TRUE

Table(f) == f @@ <<>>

(* dirs = [[1,0],[-1,0],[0,1],[0,-1]], in the source's order               *)
Dirs == << <<1, 0>>, <<-1, 0>>, <<0, 1>>, <<0, -1>> >>

-----------------------------------------------------------------------------
(* Simplex2D.noise, abstracted: the sign of the lattice noise at a sample  *)
(* point, a function of the seed the evaluator was built from.             *)

NoiseStride == Width
NoiseDigits == Width * Height

Noise(seed, px, py) ==
  LET d == (px + py * NoiseStride) % NoiseDigits
  IN  IF (seed \div Pow(2, d)) % 2 = 1 THEN 1 ELSE -1

(* A number given to set is an integer or NaN; NaN is kept apart from      *)
(* every integer the model uses.                                           *)
NaN == -1000000

(* for (let i = 0; i < p.octaves; i++): no iteration when octaves is NaN.  *)
OctaveCount(octaves) == IF octaves = NaN THEN 0 ELSE Max2(0, octaves)

(* freq = baseFreq * lacunarity^i, with baseFreq as the unit of the grid   *)
OctaveFreq(i) == Pow(Lacunarity, i)
(* amp = baseAmp * persistence^i, scaled by PersistenceDen^(n-1)/baseAmp   *)
OctaveAmp(i, n) == Pow(PersistenceNum, i) * Pow(PersistenceDen, n - 1 - i)

RECURSIVE AmpTotal(_, _)
AmpTotal(i, n) == IF i >= n THEN 0 ELSE OctaveAmp(i, n) + AmpTotal(i + 1, n)

(* Mutant: the total amplitude used as it is.                              *)
AmpSumNoFallback(n) == AmpTotal(0, n)

(* if (ampSum <= 0) ampSum = 1                                             *)
AmpSum(n) == IF AmpTotal(0, n) <= 0 THEN 1 ELSE AmpTotal(0, n)

RECURSIVE OctaveSum(_, _, _, _, _)
OctaveSum(seed, x, y, i, n) ==
  IF i >= n THEN 0
  ELSE OctaveAmp(i, n) * Noise(seed, x * OctaveFreq(i), y * OctaveFreq(i))
       + OctaveSum(seed, x, y, i + 1, n)

(* v = (v / ampSum + 1) / 2, clamped to [0,1]: the rational num/den        *)
FieldValue(seed, x, y, n) ==
  LET den == 2 * AmpSum(n)
      num == OctaveSum(seed, x, y, 0, n) + AmpSum(n)
  IN  [num |-> Min2(den, Max2(0, num)), den |-> den]

(* isLand = pow(v, gamma) > landThreshold, gamma = k/2, threshold t/ThrDen *)
LandTest(v, k, t) ==
  Pow(v.num, k) * ThrDen * ThrDen > t * t * Pow(v.den, k)

(* floor(vLand * 31) with vLand = (pow(v,gamma) - thr) / (1 - thr),        *)
(* clamped to [0,31]: the largest j with pow(v,gamma) >= thr + j(1-thr)/31 *)
QuantizeLand(v, k, t) ==
  LET a == Pow(v.num, k) * (31 * ThrDen) * (31 * ThrDen)
      b == Pow(v.den, k)
      ok(j) == a >= (31 * t + j * (ThrDen - t)) * (31 * t + j * (ThrDen - t)) * b
  IN  Cardinality({j \in 1 .. 31 : ok(j)})

(* Mutant: the ocean flag given to the land cells.                         *)
ComposeTileOceanOnLand(isLand, magnitude) ==
  LET landBit == IF isLand THEN Shl1(IS_LAND_BIT) ELSE 0
      oceanBit == IF isLand THEN Shl1(OCEAN_BIT) ELSE 0
  IN  landBit + oceanBit + (magnitude % (MAG_MASK + 1))

(* landBit | oceanBit | (magnitude & 0x1f)                                 *)
ComposeTile(isLand, magnitude) ==
  LET landBit == IF isLand THEN Shl1(IS_LAND_BIT) ELSE 0
      oceanBit == IF isLand THEN 0 ELSE Shl1(OCEAN_BIT)
  IN  landBit + oceanBit + (magnitude % (MAG_MASK + 1))

EncodeTile(v, k, t) ==
  LET isLand == LandTest(v, k, t)
      magnitude == IF isLand THEN QuantizeLand(v, k, t) ELSE 0
  IN  ComposeTile(isLand, magnitude)

(* The first loop of generateTerrainBin: octaves from the global store,    *)
(* gamma from this.params ?? GeneratedParams.get().  this.params is <<>>   *)
(* when the loader was constructed without parameters, <<p>> otherwise.    *)
EffectiveParams(thisParams, st) ==
  IF thisParams = <<>> THEN st ELSE thisParams[1]

(* Mutant: one evaluator state shared by the instances, advanced by every  *)
(* generation that has run.                                                *)
NoiseSeedShared(seed) ==
  seed + Cardinality({i \in Loaders : genStore[i] # <<>>})

(* new Simplex2D(seed): the evaluator is built from the seed argument.     *)
NoiseSeed(seed) == seed

EncodeField(w, h, seed, t, thisParams, st) ==
  Table([i \in Cells(w, h) |->
           EncodeTile(FieldValue(NoiseSeed(seed), XOf(i, w), YOf(i, w),
                                 OctaveCount(st.octaves)),
                      EffectiveParams(thisParams, st).contrastGamma, t)])

-----------------------------------------------------------------------------
(* removeSmallRegions.  grid is compared with the numbers 1 and 0, as the  *)
(* source does (grid[i] === 1, grid[ni] === target, grid[...] = 0 / 1).    *)

SeqRange(q) == {q[n] : n \in 1 .. Len(q)}

RECURSIVE BfsNeighbors(_, _, _, _, _, _, _, _)
BfsNeighbors(grid, w, h, target, c, d, q, visited) ==
  IF d > Len(Dirs) THEN [q |-> q, visited |-> visited]
  ELSE LET nx == XOf(c, w) + Dirs[d][1]
           ny == YOf(c, w) + Dirs[d][2]
           ni == Index(nx, ny, w)
       IN  IF ~InBounds(nx, ny, w, h)
           THEN BfsNeighbors(grid, w, h, target, c, d + 1, q, visited)
           ELSE IF ni \in visited
           THEN BfsNeighbors(grid, w, h, target, c, d + 1, q, visited)
           ELSE IF grid[ni] = target
           THEN BfsNeighbors(grid, w, h, target, c, d + 1,
                             Append(q, ni), visited \cup {ni})
           ELSE BfsNeighbors(grid, w, h, target, c, d + 1, q, visited)

RECURSIVE BfsLoop(_, _, _, _, _, _, _)
BfsLoop(grid, w, h, target, q, visited, cells) ==
  IF q = <<>> THEN [cells |-> cells, visited |-> visited]
  ELSE LET c == Head(q)
           r == BfsNeighbors(grid, w, h, target, c, 1, Tail(q), visited)
       IN  BfsLoop(grid, w, h, target, r.q, r.visited, Append(cells, c))

(* bfs(sx, sy, target)                                                     *)
Bfs(grid, w, h, start, target, visited) ==
  BfsLoop(grid, w, h, target, <<start>>, visited \cup {start}, <<>>)

(* One raster scan of removeSmallRegions: components of cells equal to     *)
(* target that are smaller than minSize are overwritten with fill.         *)
RECURSIVE RegionScan(_, _, _, _, _, _, _, _)
RegionScan(grid, w, h, i, visited, target, minSize, fill) ==
  IF i >= w * h THEN grid
  ELSE IF i \notin visited /\ grid[i] = target
  THEN LET comp == Bfs(grid, w, h, i, target, visited)
           g2 == IF Len(comp.cells) < minSize
                 THEN Table([j \in DOMAIN grid |->
                         IF j \in SeqRange(comp.cells) THEN fill ELSE grid[j]])
                 ELSE grid
       IN  RegionScan(g2, w, h, i + 1, comp.visited, target, minSize, fill)
  ELSE RegionScan(grid, w, h, i + 1, visited, target, minSize, fill)

LandValue == 1
WaterValue == 0

(* Mutant: pruning over the land/water view of the IS_LAND bit.            *)
removeSmallRegionsByBit(grid, w, h, minLandSize, minWaterSize) ==
  LET mask == Table([i \in DOMAIN grid |->
                       IF IsLand(grid[i]) THEN LandValue ELSE WaterValue])
      afterLand == RegionScan(mask, w, h, 0, {}, LandValue, minLandSize,
                              WaterValue)
      pruned == RegionScan(afterLand, w, h, 0, {}, WaterValue, minWaterSize,
                           LandValue)
  IN  Table([i \in DOMAIN grid |->
               IF pruned[i] = mask[i] THEN grid[i]
               ELSE IF pruned[i] = LandValue THEN Shl1(IS_LAND_BIT)
               ELSE Shl1(OCEAN_BIT)])

removeSmallRegions(grid, w, h, minLandSize, minWaterSize) ==
  LET afterLand == RegionScan(grid, w, h, 0, {}, LandValue, minLandSize,
                              WaterValue)
  IN  RegionScan(afterLand, w, h, 0, {}, WaterValue, minWaterSize, LandValue)

(* The pruning call of generateTerrainBin: sizes from the global store.    *)
PrunePass(buf, w, h, st) ==
  removeSmallRegions(buf, w, h, st.minLandRegionSize, st.minWaterRegionSize)

-----------------------------------------------------------------------------
(* Ocean flood fill from the edges.                                        *)

RECURSIVE RowSeeds(_, _, _)
RowSeeds(x, w, h) ==
  IF x >= w THEN <<>>
  ELSE << Index(x, 0, w), Index(x, h - 1, w) >> \o RowSeeds(x + 1, w, h)

RECURSIVE ColSeeds(_, _, _)
ColSeeds(y, w, h) ==
  IF y >= h THEN <<>>
  ELSE << Index(0, y, w), Index(w - 1, y, w) >> \o ColSeeds(y + 1, w, h)

RECURSIVE WaterOnly(_, _)
WaterOnly(buf, q) ==
  IF q = <<>> THEN <<>>
  ELSE IF IsLand(buf[Head(q)]) THEN WaterOnly(buf, Tail(q))
       ELSE << Head(q) >> \o WaterOnly(buf, Tail(q))

EdgeSeeds(buf, w, h) == WaterOnly(buf, RowSeeds(0, w, h) \o ColSeeds(0, w, h))

RECURSIVE OceanNeighbors(_, _, _, _, _, _, _)
OceanNeighbors(buf, w, h, c, d, q, visited) ==
  IF d > Len(Dirs) THEN q
  ELSE LET nx == XOf(c, w) + Dirs[d][1]
           ny == YOf(c, w) + Dirs[d][2]
           ni == Index(nx, ny, w)
       IN  IF ~InBounds(nx, ny, w, h)
           THEN OceanNeighbors(buf, w, h, c, d + 1, q, visited)
           ELSE IF ni \in visited
           THEN OceanNeighbors(buf, w, h, c, d + 1, q, visited)
           ELSE IF ~IsLand(buf[ni])
           THEN OceanNeighbors(buf, w, h, c, d + 1, Append(q, ni), visited)
           ELSE OceanNeighbors(buf, w, h, c, d + 1, q, visited)

(* Mutant: ^ for |.                                                        *)
MarkOceanToggle(cell) ==
  IF HasBit(cell, OCEAN_BIT) THEN cell - Shl1(OCEAN_BIT)
  ELSE cell + Shl1(OCEAN_BIT)

(* out[ci] = out[ci] | (1 << OCEAN_BIT)                                    *)
MarkOcean(cell) == OrBit(cell, OCEAN_BIT)

RECURSIVE OceanLoop(_, _, _, _, _)
OceanLoop(buf, w, h, q, visited) ==
  IF q = <<>> THEN buf
  ELSE LET c == Head(q)
       IN  IF c \in visited THEN OceanLoop(buf, w, h, Tail(q), visited)
           ELSE IF ~IsLand(buf[c])
           THEN OceanLoop([buf EXCEPT ![c] = MarkOcean(buf[c])], w, h,
                          OceanNeighbors(buf, w, h, c, 1, Tail(q),
                                         visited \cup {c}),
                          visited \cup {c})
           ELSE OceanLoop(buf, w, h, Tail(q), visited \cup {c})

OceanPass(buf, w, h) == OceanLoop(buf, w, h, EdgeSeeds(buf, w, h), {})

-----------------------------------------------------------------------------
(* Shoreline pass: one raster scan, in place.                              *)

(* Mutant: the neighbour below is not looked at.                           *)
AdjacentOceanNoDown(buf, x, y, w, h) ==
  \/ x > 0 /\ IsOcean(buf[Index(x - 1, y, w)])
  \/ x + 1 < w /\ IsOcean(buf[Index(x + 1, y, w)])
  \/ y > 0 /\ IsOcean(buf[Index(x, y - 1, w)])

AdjacentOcean(buf, x, y, w, h) ==
  \/ x > 0 /\ IsOcean(buf[Index(x - 1, y, w)])
  \/ x + 1 < w /\ IsOcean(buf[Index(x + 1, y, w)])
  \/ y > 0 /\ IsOcean(buf[Index(x, y - 1, w)])
  \/ y + 1 < h /\ IsOcean(buf[Index(x, y + 1, w)])

RECURSIVE ShoreScan(_, _, _, _)
ShoreScan(buf, w, h, i) ==
  IF i >= w * h THEN buf
  ELSE IF IsLand(buf[i]) /\ AdjacentOcean(buf, XOf(i, w), YOf(i, w), w, h)
       THEN ShoreScan([buf EXCEPT ![i] = OrBit(buf[i], SHORELINE_BIT)],
                      w, h, i + 1)
       ELSE ShoreScan(buf, w, h, i + 1)

ShorelinePass(buf, w, h) == ShoreScan(buf, w, h, 0)

-----------------------------------------------------------------------------
(* Smoothing and ridge accent: both read a copy made before the pass.      *)

LandWindowWithWater(copy, x, y, r, w, h) ==
  {ni \in DOMAIN copy :
     /\ XOf(ni, w) >= x - r /\ XOf(ni, w) <= x + r
     /\ YOf(ni, w) >= y - r /\ YOf(ni, w) <= y + r}

LandWindow(copy, x, y, r, w, h) ==
  {ni \in DOMAIN copy :
     /\ XOf(ni, w) >= x - r /\ XOf(ni, w) <= x + r
     /\ YOf(ni, w) >= y - r /\ YOf(ni, w) <= y + r
     /\ IsLand(copy[ni])}

RECURSIVE MagSum(_, _)
MagSum(copy, S) ==
  IF S = {} THEN 0
  ELSE LET ni == CHOOSE n \in S : TRUE
       IN  Magnitude(copy[ni]) + MagSum(copy, S \ {ni})

(* Math.floor(sum / Math.max(1, count))                                    *)
WindowMean(copy, x, y, r, w, h) ==
  LET win == LandWindow(copy, x, y, r, w, h)
  IN  MagSum(copy, win) \div Max2(1, Cardinality(win))

SmoothRadius(thisParams, st) ==
  Max2(0, Min2(MaxSmoothingRadius,
               EffectiveParams(thisParams, st).smoothingRadius))

SmoothPass(buf, w, h, thisParams, st) ==
  LET radius == SmoothRadius(thisParams, st)
  IN  Table([i \in DOMAIN buf |->
         IF ~IsLand(buf[i]) \/ radius = 0 THEN buf[i]
         ELSE WithMagnitude(buf[i],
                Min2(31, Max2(0, WindowMean(buf, XOf(i, w), YOf(i, w),
                                            radius, w, h)))) ])

RidgeMargin == 2
RidgeBoost == 2

(* The ridge pass reading the buffer it writes, in scan order.             *)
RECURSIVE RidgeInPlaceFrom(_, _, _, _)
RidgeInPlaceFrom(buf, i, w, h) ==
  IF i >= w * h THEN buf
  ELSE RidgeInPlaceFrom(
         IF IsLand(buf[i])
            /\ Magnitude(buf[i]) >= WindowMean(buf, XOf(i, w), YOf(i, w), 1, w, h) + RidgeMargin
         THEN [buf EXCEPT ![i] = WithMagnitude(buf[i], Min2(31, Magnitude(buf[i]) + RidgeBoost))]
         ELSE buf,
         i + 1, w, h)

RidgePassInPlace(buf, w, h, thisParams, st) ==
  IF ~EffectiveParams(thisParams, st).ridgeAccent THEN buf
  ELSE RidgeInPlaceFrom(buf, 0, w, h)

RidgePass(buf, w, h, thisParams, st) ==
  IF ~EffectiveParams(thisParams, st).ridgeAccent THEN buf
  ELSE Table([i \in DOMAIN buf |->
          IF ~IsLand(buf[i]) THEN buf[i]
          ELSE LET selfMag == Magnitude(buf[i])
                   avg == WindowMean(buf, XOf(i, w), YOf(i, w), 1, w, h)
               IN  IF selfMag >= avg + RidgeMargin
                   THEN WithMagnitude(buf[i], Min2(31, selfMag + RidgeBoost))
                   ELSE buf[i] ])

generateTerrainBin(w, h, seed, t, thisParams, st) ==
  Only({RidgePass(smooth, w, h, thisParams, st) :
    smooth \in {SmoothPass(shore, w, h, thisParams, st) :
      shore \in {ShorelinePass(ocean, w, h) :
        ocean \in {OceanPass(pruned, w, h) :
          pruned \in {PrunePass(encoded, w, h, st) :
            encoded \in {EncodeField(w, h, seed, t, thisParams, st)}}}}}})

-----------------------------------------------------------------------------
(* Parameters, inputs and initial states.                                  *)

ParamsOf(seed, octaves, t, k, minLand, minWater, radius, ridge) ==
  [seed |-> seed, octaves |-> octaves, landThreshold |-> t,
   contrastGamma |-> k, minLandRegionSize |-> minLand,
   minWaterRegionSize |-> minWater, smoothingRadius |-> radius,
   ridgeAccent |-> ridge]

-----------------------------------------------------------------------------
(* The parameter store and the loaders.                                    *)

DefaultSeed == 123456789
DefaultSmoothingRadius == 1

(* defaultParams; the octave count is the model's bound, the threshold     *)
(* 1/2 and the gamma 2/2 stand for 0.46 and 0.8.                           *)
defaultParams ==
  ParamsOf(DefaultSeed, MaxOctaves, 1, 2, MaxRegion, MaxRegion,
           DefaultSmoothingRadius, TRUE)

MapTypes == {"Generated", "World"}


NoProduct == <<>>

NoCall ==
  [via |-> "none", map |-> "Generated", outcome |-> "none",
   product |-> NoProduct, runs |-> 0, repeat |-> FALSE]

(* The functions that subscribe to the store: f1 returns normally, f2      *)
(* throws whenever it is called.                                           *)
Fns == {"f1", "f2"}
Throwing == {"f2"}

NoDelivery == [f \in Fns |-> <<>>]

NoOp ==
  [op |-> "none", fn |-> "none", before |-> defaultParams, subs |-> <<>>,
   got |-> NoDelivery, returned |-> TRUE]

StoreObsInit ==
  /\ subscribers = <<>>
  /\ handles = {}
  /\ released = {}
  /\ lastOp = NoOp

(* The maps of the manifests table that the model keeps.                   *)
ManifestMaps == {"World", "Mars"}

NoCounts == [m \in ManifestMaps |-> <<>>]

NoQuery ==
  [fn |-> "none", map |-> "none", count |-> 0, table |-> <<>>,
   initDone |-> FALSE]

(* let nationCountCache = null; let initPromise = null                     *)
NationInit ==
  /\ nationCountCache = <<>>
  /\ initPromise = "null"
  /\ load = [runs |-> 0, counts |-> NoCounts, failed |-> {}]
  /\ calls = <<>>
  /\ query = NoQuery

NoDiff == [h |-> 0, n |-> 0, result |-> "none"]

-----------------------------------------------------------------------------
(* Simplex2D.buildPermutation, on unsigned 32-bit words kept as two 16-bit *)
(* halves.                                                                 *)

PermSize == 256
Half == 65536
HalfBits == 16

Word(hi, lo) == [hi |-> hi, lo |-> lo]

(* seed >>> 0, for a seed in 0 .. 2^31 - 1                                 *)
toWord(seed) == Word(seed \div Half, seed % Half)

RECURSIVE XorBits(_, _, _)
XorBits(a, b, n) ==
  IF n = 0 THEN 0
  ELSE ((a + b) % 2) + 2 * XorBits(a \div 2, b \div 2, n - 1)

XorWord(x, y) ==
  Word(XorBits(x.hi, y.hi, HalfBits), XorBits(x.lo, y.lo, HalfBits))

(* x << n kept to 32 bits, 0 < n < 16                                      *)
ShiftLeft(x, n) ==
  Word((x.hi % Pow(2, HalfBits - n)) * Pow(2, n) + x.lo \div Pow(2, HalfBits - n),
       (x.lo % Pow(2, HalfBits - n)) * Pow(2, n))

(* x >>> n, 16 <= n < 32                                                   *)
ShiftRight(x, n) == Word(0, x.hi \div Pow(2, n - HalfBits))

XorShiftA == 13
XorShiftB == 17
XorShiftC == 5

xorshift32(x) ==
  Only({XorWord(b, ShiftLeft(b, XorShiftC)) :
    b \in {XorWord(a, ShiftRight(a, XorShiftB)) :
      a \in {XorWord(x, ShiftLeft(x, XorShiftA))}}})

(* s % m for 0 < m <= 256                                                  *)
ModWord(x, m) == ((x.hi % m) * (Half % m) + x.lo) % m

IdentityTable == [k \in 0 .. PermSize - 1 |-> k]

(* Mutant: p[i] = p[j] without keeping p[i].                               *)
OverwriteEntry(p, i, j) == [p EXCEPT ![i] = p[j]]

(* tmp = p[i]; p[i] = p[j]; p[j] = tmp                                     *)
SwapEntries(p, i, j) == [p EXCEPT ![i] = p[j], ![j] = p[i]]

(* One iteration: s = xorshift32(s); j = s % (i + 1); swap p[i] and p[j]   *)
ShuffleStep(st, i) ==
  Only({[p |-> SwapEntries(st.p, i, ModWord(s1, i + 1)), s |-> s1] :
          s1 \in {xorshift32(st.s)}})

(* for (let i = hi; i >= lo; i--), the iterations taken in this order, the *)
(* range halved to keep the evaluation shallow.                            *)
RECURSIVE Shuffle(_, _, _)
Shuffle(st, hi, lo) ==
  IF hi < lo THEN st
  ELSE IF hi = lo THEN ShuffleStep(st, hi)
  ELSE Only({Shuffle(st1, (hi + lo + 1) \div 2 - 1, lo) :
               st1 \in {Shuffle(st, hi, (hi + lo + 1) \div 2)}})

buildPermutation(seed) ==
  Shuffle([p |-> IdentityTable, s |-> toWord(seed)], PermSize - 1, 1).p

NoTable == <<>>
NoBuilds == [k \in 1 .. 2 |-> [seed |-> 0, perm |-> NoTable]]

-----------------------------------------------------------------------------
(* Subscribers that call the store from inside their callback: f3 sets     *)
(* ridgeAccent back to true when it is given a snapshot without it, f4     *)
(* resets the store when it is given a snapshot with another seed than the *)
(* default.                                                                *)
Reentrant == {"f3", "f4"}
ReFns == {"f1"} \cup Reentrant

NoneDelivered == [f \in ReFns |-> <<>>]

-----------------------------------------------------------------------------
(* WinModal: the fields as the class initialises them.                     *)
NoTitle == "none"

ModalInit ==
  /\ modal = [isVisible |-> FALSE, showButtons |-> FALSE,
              hasShownDeathModal |-> FALSE, title |-> NoTitle,
              isWin |-> FALSE, loading |-> 0, timers |-> 0]
  /\ modalLog = [ticks |-> 0, deathShows |-> 0, condBefore |-> FALSE,
                 cond |-> FALSE, death |-> FALSE, sinceHide |-> FALSE]

SideInit ==
  /\ StoreObsInit /\ NationInit /\ diff = NoDiff
  /\ builds = NoBuilds /\ delivered = NoneDelivered /\ ModalInit

GammaHalves == {1, 2}
Thresholds == {0, 1}

(* Post-processing profiles of a run: <<region sizes, radius, ridge>>.      *)
PostProfiles ==
  { <<0, 0, FALSE>>, <<0, 0, TRUE>>, <<MaxRegion, 1, TRUE>>,
    <<MaxRegion, MaxSmoothingRadius, FALSE>>,
    <<Width * Height + 1, 0, FALSE>> }

PipeParams ==
  {ParamsOf(seed, octaves, tk[1], tk[2], pp[1], pp[1], pp[2], pp[3]) :
     seed \in 0 .. MaxSeed, octaves \in {NaN} \cup (1 .. MaxOctaves),
     tk \in {<<1, 2>>, <<0, 1>>}, pp \in PostProfiles}

PipeInit ==
  /\ pc = "start"
  /\ \E st \in PipeParams :
       inp = [w |-> Width, h |-> Height, seed |-> st.seed,
              t |-> st.landThreshold, thisParams |-> <<>>, st |-> st]
  /\ out = [i \in Cells(Width, Height) |-> 0]
  /\ enc = [i \in Cells(Width, Height) |-> 0]
  /\ store = defaultParams
  /\ loaders = [i \in Loaders |-> [made |-> FALSE, params |-> <<>>,
                                  maps |-> [m \in MapTypes |-> NoProduct]]]
  /\ last = NoCall
  /\ first = [e \in Entries |-> NoProduct]
  /\ genStore = [i \in Loaders |-> <<>>]
  /\ SideInit

PipeEncode ==
  /\ pc = "start"
  /\ out' = EncodeField(inp.w, inp.h, inp.seed, inp.t, inp.thisParams, inp.st)
  /\ enc' = out'
  /\ pc' = "encoded"
  /\ UNCHANGED << inp, loaderVars, sideVars >>

PipePrune ==
  /\ pc = "encoded"
  /\ out' = PrunePass(out, inp.w, inp.h, inp.st)
  /\ pc' = "pruned"
  /\ UNCHANGED << inp, enc, loaderVars, sideVars >>

PipeOcean ==
  /\ pc = "pruned"
  /\ out' = OceanPass(out, inp.w, inp.h)
  /\ pc' = "ocean"
  /\ UNCHANGED << inp, enc, loaderVars, sideVars >>

PipeShoreline ==
  /\ pc = "ocean"
  /\ out' = ShorelinePass(out, inp.w, inp.h)
  /\ pc' = "shoreline"
  /\ UNCHANGED << inp, enc, loaderVars, sideVars >>

PipeSmooth ==
  /\ pc = "shoreline"
  /\ out' = SmoothPass(out, inp.w, inp.h, inp.thisParams, inp.st)
  /\ pc' = "smoothed"
  /\ UNCHANGED << inp, enc, loaderVars, sideVars >>

PipeRidge ==
  /\ pc = "smoothed"
  /\ out' = RidgePass(out, inp.w, inp.h, inp.thisParams, inp.st)
  /\ pc' = "done"
  /\ UNCHANGED << inp, enc, loaderVars, sideVars >>

PipeNext ==
  \/ PipeEncode
  \/ PipePrune
  \/ PipeOcean
  \/ PipeShoreline
  \/ PipeSmooth
  \/ PipeRidge

SpecPipe == PipeInit /\ [][PipeNext]_vars

-----------------------------------------------------------------------------
(* GeneratedParamsStore.set / reset, for the fields generation reads.      *)

OctavesMin == 1
OctavesMax == 12
RegionSizeMax == 10000
GammaMinHalves == 1
GammaMaxHalves == 3

(* Math.min, Math.max and Math.floor give NaN when an argument is NaN.     *)
mathMin(a, b) == IF a = NaN \/ b = NaN THEN NaN ELSE Min2(a, b)
mathMax(a, b) == IF a = NaN \/ b = NaN THEN NaN ELSE Max2(a, b)
mathFloor(n) == n

clamp(n, lo, hi) == mathMax(lo, mathMin(hi, n))
clampInt(n, lo, hi) == mathMax(lo, mathMin(hi, mathFloor(n)))
(* Math.floor(n) >>> 0: NaN becomes 0; the model's other seeds are in      *)
(* 0 .. 2^31 - 1, which the conversion leaves as they are.                 *)
toUint32(n) == IF mathFloor(n) = NaN THEN 0 ELSE mathFloor(n)

(* The updates the model makes: a new seed, an octave count below the      *)
(* minimum, a width (ignored by set).                                      *)
Updates ==
  { [field |-> "seed", value |-> 170],
    [field |-> "octaves", value |-> 0],
    [field |-> "width", value |-> Width + 1] }

ApplyUpdate(p, u) ==
  CASE u.field = "octaves" ->
         [p EXCEPT !.octaves =
            mathMax(OctavesMin, mathMin(OctavesMax, mathFloor(u.value)))]
    [] u.field = "landThreshold" ->
         [p EXCEPT !.landThreshold = clamp(u.value, 0, ThrDen)]
    [] u.field = "seed" -> [p EXCEPT !.seed = toUint32(u.value)]
    [] u.field = "contrastGamma" ->
         [p EXCEPT !.contrastGamma = clamp(u.value, GammaMinHalves, GammaMaxHalves)]
    [] u.field = "minLandRegionSize" ->
         [p EXCEPT !.minLandRegionSize = clampInt(u.value, 0, RegionSizeMax)]
    [] u.field = "minWaterRegionSize" ->
         [p EXCEPT !.minWaterRegionSize = clampInt(u.value, 0, RegionSizeMax)]
    [] u.field = "smoothingRadius" ->
         [p EXCEPT !.smoothingRadius = clampInt(u.value, 0, MaxSmoothingRadius)]
    [] u.field = "ridgeAccent" -> [p EXCEPT !.ridgeAccent = u.value]
    [] OTHER -> p   \* width, height, ...: fixed map size, ignored

(* a === b on numbers: NaN is not equal to itself                          *)
StrictEq(a, b) == a # NaN /\ b # NaN /\ a = b

NumberFields ==
  {"octaves", "landThreshold", "seed", "contrastGamma", "minLandRegionSize",
   "minWaterRegionSize", "smoothingRadius"}

generatedParamsEqual(a, b) ==
  /\ \A f \in NumberFields : StrictEq(a[f], b[f])
  /\ a.ridgeAccent = b.ridgeAccent

(* set(update): the parameters afterwards and whether notify() ran          *)
set(p, u) ==
  LET next == ApplyUpdate(p, u)
  IN  IF ~generatedParamsEqual(p, next)
      THEN [params |-> next, notified |-> TRUE]
      ELSE [params |-> p, notified |-> FALSE]

(* notify(): every subscriber, in insertion order, is called with the       *)
(* snapshot; what a subscriber throws is caught and logged.                 *)
RECURSIVE notifyFrom(_, _, _, _)
notifyFrom(subs, k, snapshot, got) ==
  IF k > Len(subs) THEN got
  ELSE notifyFrom(subs, k + 1, snapshot,
                  [got EXCEPT ![subs[k]] = Append(@, snapshot)])

notify(subs, snapshot) == notifyFrom(subs, 1, snapshot, NoDelivery)

(* In Spec and SpecPair nothing subscribes to the store.                   *)
StoreSet(u) ==
  /\ store' = set(store, u).params
  /\ UNCHANGED << loaders, last, first, genStore, pipeVars, sideVars >>

StoreReset ==
  /\ store' = defaultParams
  /\ UNCHANGED << loaders, last, first, genStore, pipeVars, sideVars >>

-----------------------------------------------------------------------------
(* The store with subscribers (SpecStore).                                 *)

(* The updates given to set: a new seed, values outside their ranges, NaN, *)
(* the ridge flag, a width (ignored).                                      *)
StoreUpdates ==
  { [field |-> "seed", value |-> 170],
    [field |-> "octaves", value |-> 0],
    [field |-> "octaves", value |-> NaN],
    [field |-> "smoothingRadius", value |-> MaxSmoothingRadius + 3],
    [field |-> "minLandRegionSize", value |-> -3],
    [field |-> "ridgeAccent", value |-> FALSE],
    [field |-> "width", value |-> Width + 1] }

Without(q, f) == SelectSeq(q, LAMBDA x : x # f)

(* this.subscribers.add(fn): a Set keeps the first insertion               *)
SetAdd(q, f) == IF f \in SeqRange(q) THEN q ELSE Append(q, f)

Set(u) ==
  /\ \E r \in {set(store, u)} :
       /\ store' = r.params
       /\ lastOp' = [op |-> "set", fn |-> "none", before |-> store,
                     subs |-> subscribers,
                     got |-> IF r.notified THEN notify(subscribers, r.params)
                             ELSE NoDelivery,
                     returned |-> TRUE]
  /\ UNCHANGED << subscribers, handles, released >>
  /\ UNCHANGED storeRest

Reset ==
  /\ store' = defaultParams
  /\ lastOp' = [op |-> "reset", fn |-> "none", before |-> store,
                subs |-> subscribers,
                got |-> notify(subscribers, defaultParams),
                returned |-> TRUE]
  /\ UNCHANGED << subscribers, handles, released >>
  /\ UNCHANGED storeRest

(* subscribe(fn): fn is added, then called with the snapshot outside any   *)
(* try; when fn throws, subscribe throws and returns no function.          *)
Subscribe(fn) ==
  /\ subscribers' = SetAdd(subscribers, fn)
  /\ lastOp' = [op |-> "subscribe", fn |-> fn, before |-> store,
                subs |-> subscribers,
                got |-> [NoDelivery EXCEPT ![fn] = << store >>],
                returned |-> fn \notin Throwing]
  /\ handles' = IF fn \in Throwing THEN handles ELSE handles \cup {fn}
  /\ released' = released \ {fn}
  /\ UNCHANGED << store, storeRest >>

(* the function subscribe returned: this.subscribers.delete(fn)            *)
Unsubscribe(fn) ==
  /\ fn \in handles
  /\ subscribers' = Without(subscribers, fn)
  /\ released' = released \cup {fn}
  /\ lastOp' = [op |-> "unsubscribe", fn |-> fn, before |-> store,
                subs |-> subscribers, got |-> NoDelivery, returned |-> TRUE]
  /\ UNCHANGED << handles, store, storeRest >>

-----------------------------------------------------------------------------
(* GeneratedMapLoader and CombinedMapLoader.                               *)

(* buf[i] === 1                                                            *)
CountedAsLand(cell) == cell = 1
countLand(buf) == Cardinality({i \in DOMAIN buf : CountedAsLand(buf[i])})

BuildProduct(thisParams, st) ==
  LET p == EffectiveParams(thisParams, st)
      manifestOf(b) ==
        [name |-> "Generated",
         map |-> [width |-> Width, height |-> Height,
                  num_land_tiles |-> countLand(b[1])],
         map4x |-> [width |-> Width4x, height |-> Height4x,
                    num_land_tiles |-> countLand(b[2])],
         map16x |-> [width |-> Width16x, height |-> Height16x,
                     num_land_tiles |-> countLand(b[3])],
         nations |-> <<>>]
  IN  Only({[mapBin |-> b[1], map4xBin |-> b[2], map16xBin |-> b[3],
             manifest |-> manifestOf(b)] :
        b \in {<< generateTerrainBin(Width, Height, p.seed,
                                     p.landThreshold, thisParams, st),
                  generateTerrainBin(Width4x, Height4x,
                                     p.seed + SeedOffset4x,
                                     p.landThreshold, thisParams, st),
                  generateTerrainBin(Width16x, Height16x,
                                     p.seed + SeedOffset16x,
                                     p.landThreshold, thisParams, st) >>}})

(* Mutant: the test inverted.                                              *)
RejectedInverted(map) == map = "Generated"

(* if (map !== GameMapType.Generated) throw                                *)
Rejected(map) == map # "Generated"

(* Mutant: the cache is never hit.                                         *)
CacheLookupNone(ld, map) == NoProduct

(* this.maps.get(map)                                                      *)
CacheLookup(ld, map) == ld.maps[map]

(* Mutant: the product is not kept.                                        *)
CacheStoreDropped(ld, map, data) == ld

(* this.maps.set(map, data)                                                *)
CacheStore(ld, map, data) == [ld EXCEPT !.maps[map] = <<data>>]

TerrainRunsPerProduct == 3

(* getMapData on the loader ld with the store st: the loader afterwards    *)
(* and what the call gave back.                                            *)
getMapData(ld, map, st) ==
  IF Rejected(map)
  THEN [ld |-> ld, outcome |-> "error", product |-> NoProduct, runs |-> 0]
  ELSE IF CacheLookup(ld, map) # NoProduct
  THEN [ld |-> ld, outcome |-> "ok", product |-> CacheLookup(ld, map), runs |-> 0]
  ELSE Only({[ld |-> CacheStore(ld, map, data), outcome |-> "ok",
               product |-> <<data>>, runs |-> TerrainRunsPerProduct] :
         data \in {BuildProduct(ld.params, st)}})

FreshLoader(params) ==
  [made |-> TRUE, params |-> params, maps |-> [m \in MapTypes |-> NoProduct]]

(* new GeneratedMapLoader() / new GeneratedMapLoader(GeneratedParams.get())*)
(* L2 is constructed after L1.                                             *)
NewLoader(i, withParams) ==
  /\ ~loaders[i].made
  /\ i = "L2" => loaders["L1"].made
  /\ loaders' = [loaders EXCEPT
                   ![i] = FreshLoader(IF withParams THEN <<store>> ELSE <<>>)]
  /\ UNCHANGED << store, last, first, genStore, pipeVars, sideVars >>

(* What the model records of a call that came in through entry e.          *)
Record(e, map, r) ==
  /\ last' = [via |-> e, map |-> map, outcome |-> r.outcome,
              product |-> r.product, runs |-> r.runs,
              repeat |-> first[e] # NoProduct]
  /\ first' = IF r.outcome = "ok" /\ first[e] = NoProduct
              THEN [first EXCEPT ![e] = r.product] ELSE first

(* loader i runs getMapData(map) and gives back r                          *)
Call(i, map, r) ==
  /\ loaders[i].made
  /\ loaders' = [loaders EXCEPT ![i] = r.ld]
  /\ genStore' = IF r.runs > 0 THEN [genStore EXCEPT ![i] = <<store>>]
                 ELSE genStore
  /\ UNCHANGED << store, pipeVars, sideVars >>

GetMapData(i, map) ==
  \E r \in {getMapData(loaders[i], map, store)} :
    Call(i, map, r) /\ Record(i, map, r)

(* CombinedMapLoader.getMapData: a fresh GeneratedMapLoader per Generated  *)
(* request; any other map goes to the FetchGameMapLoader.                  *)
CombinedGetMapData(map) ==
  /\ IF map = "Generated"
     THEN \E r \in {getMapData(FreshLoader(<<store>>), map, store)} :
            Record(Combined, map, r)
     ELSE Record(Combined, map,
                 [outcome |-> "fetched", product |-> NoProduct, runs |-> 0])
  /\ UNCHANGED << store, loaders, genStore, pipeVars, sideVars >>

LoaderInit ==
  /\ store = defaultParams
  /\ loaders = [i \in Loaders |-> [made |-> FALSE, params |-> <<>>,
                                  maps |-> [m \in MapTypes |-> NoProduct]]]
  /\ last = NoCall
  /\ first = [e \in Entries |-> NoProduct]
  /\ genStore = [i \in Loaders |-> <<>>]
  /\ pc = "idle"
  /\ inp = <<>>
  /\ out = <<>>
  /\ enc = <<>>

Init == LoaderInit /\ SideInit

(* One GeneratedMapLoader, the CombinedMapLoader and the store.            *)
Next ==
  \/ \E u \in Updates : StoreSet(u)
  \/ StoreReset
  \/ \E withParams \in BOOLEAN : NewLoader("L1", withParams)
  \/ \E map \in MapTypes : GetMapData("L1", map)
  \/ \E map \in MapTypes : CombinedGetMapData(map)

Spec == Init /\ [][Next]_vars

(* Two GeneratedMapLoader instances and the store; the calls are not       *)
(* recorded in last and first.                                             *)
PairGetMapData(i) ==
  \E r \in {getMapData(loaders[i], "Generated", store)} :
    Call(i, "Generated", r) /\ UNCHANGED << last, first >>

PairNext ==
  \/ \E u \in Updates : StoreSet(u)
  \/ StoreReset
  \/ \E i \in Loaders, withParams \in BOOLEAN : NewLoader(i, withParams)
  \/ \E i \in Loaders : PairGetMapData(i)

SpecPair == Init /\ [][PairNext]_vars

(* The store and its subscribers.                                          *)
StoreNext ==
  \/ \E u \in StoreUpdates : Set(u)
  \/ Reset
  \/ \E fn \in Fns : Subscribe(fn)
  \/ \E fn \in Fns : Unsubscribe(fn)

SpecStore == Init /\ [][StoreNext]_vars

-----------------------------------------------------------------------------
(* MapNationCounts: the nation counts loaded from the map manifests.       *)

MaxInitCalls == 3
OtherNationCount == 3

FallbackWorld == 61
FallbackMars == 6
DefaultNationCount == 20

(* What nationVars leave alone.                                            *)
nationRest == << pipeVars, loaderVars, storeVars, diff, builds, delivered, modalVars >>

NationMaps == ManifestMaps \cup {"Generated"}

fallbackCounts ==
  [m \in ManifestMaps |-> IF m = "World" THEN FallbackWorld ELSE FallbackMars]

(* manifest.default.nations.length: the manifest files are resources, the  *)
(* length is either the fallback count of the map or another number.       *)
ManifestNations(m) == {fallbackCounts[m], OtherNationCount}

(* table[map] ?? 20                                                        *)
Lookup(table, map) ==
  IF map \in DOMAIN table THEN table[map] ELSE DefaultNationCount

(* Mutant: the cache is never taken as loaded.                             *)
CacheReadyNever(c) == FALSE

(* !nationCountCache is false                                              *)
CacheReady(c) == c # <<>>

getNationCount(c, map) ==
  IF ~CacheReady(c) THEN Lookup(fallbackCounts, map) ELSE Lookup(c[1], map)

(* Mutant: the promise of an earlier call is not found.                    *)
HasInitPromiseNever(p) == FALSE

(* if (initPromise)                                                        *)
HasInitPromise(p) == p # "null"

(* initMapNationCounts(): an async function, so every call returns a       *)
(* promise of its own, which follows initPromise.  The first call starts   *)
(* loadNationCounts and sets initPromise before it returns.                *)
InitMapNationCounts ==
  /\ Len(calls) < MaxInitCalls
  /\ calls' = Append(calls, "pending")
  /\ IF HasInitPromise(initPromise)
     THEN UNCHANGED << initPromise, load >>
     ELSE /\ initPromise' = "pending"
          /\ load' = [runs |-> load.runs + 1, counts |-> NoCounts,
                      failed |-> {}]
  /\ UNCHANGED << nationCountCache, query, nationRest >>

(* one manifest import resolves: counts[mapType] = nations.length          *)
ManifestLoaded(m, n) ==
  /\ load.runs > 0
  /\ load.counts[m] = <<>> /\ m \notin load.failed
  /\ load' = [load EXCEPT !.counts[m] = << n >>]
  /\ UNCHANGED << nationCountCache, initPromise, calls, query, nationRest >>

(* one manifest import rejects: Promise.all rejects                        *)
ManifestFailed(m) ==
  /\ load.runs > 0
  /\ load.counts[m] = <<>> /\ m \notin load.failed
  /\ load' = [load EXCEPT !.failed = @ \cup {m}]
  /\ UNCHANGED << nationCountCache, initPromise, calls, query, nationRest >>

(* loadNationCounts resolved: the then callback sets the cache             *)
LoadSettled ==
  /\ initPromise = "pending"
  /\ \A m \in ManifestMaps : load.counts[m] # <<>>
  /\ nationCountCache' = << [m \in ManifestMaps |-> load.counts[m][1]] >>
  /\ initPromise' = "fulfilled"
  /\ UNCHANGED << load, calls, query, nationRest >>

(* loadNationCounts rejected: the then callback does not run               *)
InitRejected ==
  /\ initPromise = "pending"
  /\ load.failed # {}
  /\ initPromise' = "rejected"
  /\ UNCHANGED << nationCountCache, load, calls, query, nationRest >>

(* the promise of call k follows initPromise                               *)
CallSettles(k) ==
  /\ calls[k] = "pending"
  /\ initPromise \in {"fulfilled", "rejected"}
  /\ calls' = [calls EXCEPT ![k] = initPromise]
  /\ UNCHANGED << nationCountCache, initPromise, load, query, nationRest >>

GetNationCount(map) ==
  /\ query' = [fn |-> "getNationCount", map |-> map,
               count |-> getNationCount(nationCountCache, map),
               table |-> <<>>, initDone |-> initPromise = "fulfilled"]
  /\ UNCHANGED << nationCountCache, initPromise, load, calls, nationRest >>

GetNationCountsSync ==
  /\ query' = [fn |-> "getNationCountsSync", map |-> "none", count |-> 0,
               table |-> nationCountCache,
               initDone |-> initPromise = "fulfilled"]
  /\ UNCHANGED << nationCountCache, initPromise, load, calls, nationRest >>

NationsNext ==
  \/ InitMapNationCounts
  \/ \E m \in ManifestMaps : \E n \in ManifestNations(m) : ManifestLoaded(m, n)
  \/ \E m \in ManifestMaps : ManifestFailed(m)
  \/ LoadSettled
  \/ InitRejected
  \/ \E k \in DOMAIN calls : CallSettles(k)
  \/ \E map \in NationMaps : GetNationCount(map)
  \/ GetNationCountsSync

SpecNations == Init /\ [][NationsNext]_vars

-----------------------------------------------------------------------------
(* The HumansVsNations difficulty.                                         *)

MaxPlayers == 12

(* humanCount / totalPlayers, kept as a fraction; 0 / 0 is NaN             *)
Ratio(a, b) == [num |-> a, den |-> b]

(* Mutant: the boundary goes to the easier level.                          *)
LessOrEqual(q, a, b) == q.den # 0 /\ q.num * b <= a * q.den

(* q < a / b; every comparison with NaN is false                           *)
Less(q, a, b) == q.den # 0 /\ q.num * b < a * q.den

calculateDifficulty(humanCount, nationCount) ==
  LET totalPlayers == humanCount + nationCount
      humanPercentage == Ratio(humanCount, totalPlayers)
  IN  IF Less(humanPercentage, 1, 4) THEN "Easy"
      ELSE IF Less(humanPercentage, 1, 2) THEN "Medium"
      ELSE IF Less(humanPercentage, 3, 4) THEN "Hard"
      ELSE "Impossible"

DifficultyInit ==
  /\ LoaderInit /\ StoreObsInit /\ NationInit
  /\ builds = NoBuilds /\ delivered = NoneDelivered /\ ModalInit
  /\ diff \in {[h |-> h, n |-> n, result |-> "none"] :
                 h \in 0 .. MaxPlayers, n \in 0 .. MaxPlayers}

CalculateDifficulty ==
  /\ diff.result = "none"
  /\ diff' = [diff EXCEPT !.result = calculateDifficulty(diff.h, diff.n)]
  /\ UNCHANGED << pipeVars, loaderVars, storeVars, nationVars,
                  builds, delivered, modalVars >>

DifficultyNext == CalculateDifficulty

SpecDifficulty == DifficultyInit /\ [][DifficultyNext]_vars

-----------------------------------------------------------------------------
(* Vocabulary of the properties: 4-connectivity over a buffer.             *)

Adjacent4(a, b, w) ==
  \/ YOf(a, w) = YOf(b, w) /\ (XOf(a, w) = XOf(b, w) + 1 \/ XOf(b, w) = XOf(a, w) + 1)
  \/ XOf(a, w) = XOf(b, w) /\ (YOf(a, w) = YOf(b, w) + 1 \/ YOf(b, w) = YOf(a, w) + 1)

Neighbours4(i, w, h) == {n \in Cells(w, h) : Adjacent4(i, n, w)}

EdgeCells(w, h) ==
  {i \in Cells(w, h) :
     XOf(i, w) = 0 \/ XOf(i, w) = w - 1 \/ YOf(i, w) = 0 \/ YOf(i, w) = h - 1}

LandCells(buf) == {i \in DOMAIN buf : IsLand(buf[i])}
WaterCells(buf) == {i \in DOMAIN buf : ~IsLand(buf[i])}

(* The cells of `allowed` joined to S by a 4-connected path inside it.     *)
RECURSIVE Closure(_, _, _, _)
Closure(S, allowed, w, h) ==
  LET S2 == S \cup {n \in allowed : \E c \in S : Adjacent4(c, n, w)}
  IN  IF S2 = S THEN S ELSE Closure(S2, allowed, w, h)

(* Water with a 4-connected water path to a cell of the border.            *)
EdgeWater(buf, w, h) ==
  Closure(WaterCells(buf) \cap EdgeCells(w, h), WaterCells(buf), w, h)

(* Enclosed water.                                                         *)
LakeCells(buf, w, h) == WaterCells(buf) \ EdgeWater(buf, w, h)

ComponentOf(i, allowed, w, h) == Closure({i}, allowed, w, h)

AfterPass(p) ==
  CASE p = "encoded" -> pc \in {"encoded", "pruned", "ocean", "shoreline", "smoothed", "done"}
    [] p = "pruned" -> pc \in {"pruned", "ocean", "shoreline", "smoothed", "done"}
    [] p = "ocean" -> pc \in {"ocean", "shoreline", "smoothed", "done"}
    [] p = "shoreline" -> pc \in {"shoreline", "smoothed", "done"}
    [] p = "smoothed" -> pc \in {"smoothed", "done"}
    [] OTHER -> pc = "done"

-----------------------------------------------------------------------------
(* C1 as stated: a Generated call after an earlier one through the same    *)
(* entry point (a GeneratedMapLoader or the CombinedMapLoader) returns the *)
(* product of the first call and runs no terrain generation.               *)
C1_RepeatCallCached ==
  (last.map = "Generated" /\ last.outcome = "ok" /\ last.repeat)
    => (last.runs = 0 /\ last.product = first[last.via])

(* C1, amended: on one GeneratedMapLoader instance a Generated call after  *)
(* an earlier one returns the product of the first call and runs no        *)
(* terrain generation.                                                     *)
C1_LoaderRepeatCallCached ==
  (last.via \in Loaders /\ last.map = "Generated" /\ last.outcome = "ok"
     /\ last.repeat)
    => (last.runs = 0 /\ last.product = first[last.via])

C1_Witness ==
  /\ last.via = "L1" /\ last.map = "Generated" /\ last.outcome = "ok"
  /\ last.repeat /\ last.runs = 0
  /\ genStore["L1"] # << store >>

(* C2: getMapData of a GeneratedMapLoader with a map other than Generated  *)
(* throws, gives back no product, runs no generation and leaves the cache  *)
(* (and so every later Generated call) as it was.                          *)
C2_RejectsOtherMaps ==
  [][\A i \in Loaders, map \in MapTypes \ {"Generated"} :
       GetMapData(i, map) =>
         /\ last'.outcome = "error"
         /\ last'.product = NoProduct
         /\ last'.runs = 0
         /\ UNCHANGED << loaders, first, genStore, store >>]_vars

C2_Witness ==
  /\ last.via = "L1" /\ last.map = "World" /\ last.outcome = "error"
  /\ loaders["L1"].maps["Generated"] # NoProduct
  /\ loaders["L1"].maps["World"] = NoProduct

(* The configuration a run reads: this.params ?? store, and the store's    *)
(* octaves and region sizes.                                               *)
ConfigRead(i) ==
  [p |-> EffectiveParams(loaders[i].params, genStore[i][1]),
   octaves |-> genStore[i][1].octaves,
   minLand |-> genStore[i][1].minLandRegionSize,
   minWater |-> genStore[i][1].minWaterRegionSize]

Buffers(i) ==
  LET d == loaders[i].maps["Generated"][1]
  IN  << d.mapBin, d.map4xBin, d.map16xBin >>

-----------------------------------------------------------------------------
BitInvariant(buf) ==
  \A i \in DOMAIN buf :
    /\ ~(IsLand(buf[i]) /\ IsOcean(buf[i]))
    /\ IsShoreline(buf[i]) => IsLand(buf[i])
    /\ ~IsLand(buf[i]) => Magnitude(buf[i]) = 0

(* C4: in the buffer of a generation run, after every pass (encoding,      *)
(* pruning, ocean classification, shoreline marking, smoothing, ridge      *)
(* accent), no cell has both IS_LAND and OCEAN, SHORELINE implies IS_LAND, *)
(* and a cell without IS_LAND has magnitude 0.                             *)
C4_BitInvariants == AfterPass("encoded") => BitInvariant(out)

C4_Witness ==
  /\ pc = "done"
  /\ \E i \in DOMAIN out : IsLand(out[i]) /\ IsShoreline(out[i]) /\ Magnitude(out[i]) > 0
  /\ \E i \in DOMAIN out : IsLand(out[i]) /\ ~IsShoreline(out[i])
  /\ \E i \in DOMAIN out : ~IsLand(out[i]) /\ IsOcean(out[i])
  /\ inp.st.minLandRegionSize > 0 /\ inp.st.smoothingRadius > 0

(* C5: after ocean classification every water cell on the border, and      *)
(* every water cell with a 4-connected water path to the border, has OCEAN.*)
C5_EdgeWaterIsOcean ==
  AfterPass("ocean") => \A i \in EdgeWater(out, inp.w, inp.h) : IsOcean(out[i])

C5_Witness ==
  /\ pc = "ocean"
  /\ LandCells(out) # {}
  /\ \E i \in EdgeWater(out, inp.w, inp.h) : i \notin EdgeCells(inp.w, inp.h)

(* C6: in the final buffer a water cell with OCEAN has a 4-connected water *)
(* path to the border; enclosed water does not carry OCEAN.                *)
C6_OceanOnlyEdgeWater ==
  pc = "done" =>
    \A i \in WaterCells(out) : IsOcean(out[i]) => i \in EdgeWater(out, inp.w, inp.h)

(* C7: in the final buffer a land cell has SHORELINE iff one of its 4      *)
(* in-bounds neighbours is a water cell with OCEAN.                        *)
C7_ShorelineIff ==
  AfterPass("shoreline") =>
    \A i \in LandCells(out) :
      IsShoreline(out[i]) <=>
        \E n \in Neighbours4(i, inp.w, inp.h) : ~IsLand(out[n]) /\ IsOcean(out[n])

C7_Witness ==
  /\ pc = "done"
  /\ \E i \in LandCells(out) : IsShoreline(out[i])
  /\ \E i \in LandCells(out) : ~IsShoreline(out[i])

(* C8: in the final buffer a land cell whose water neighbours are all      *)
(* enclosed water does not have SHORELINE.                                 *)
C8_LakeShoreNotShoreline ==
  pc = "done" =>
    \A i \in LandCells(out) :
      (Neighbours4(i, inp.w, inp.h) \cap WaterCells(out)
         \subseteq LakeCells(out, inp.w, inp.h))
      => ~IsShoreline(out[i])

(* C9: after pruning, in the IS_LAND view, every land component has at     *)
(* least minLandRegionSize cells and every water component at least        *)
(* minWaterRegionSize cells (or there is no land, no water at all).        *)
C9_NoSmallRegions ==
  pc = "pruned" =>
    /\ \A i \in LandCells(out) :
         Cardinality(ComponentOf(i, LandCells(out), inp.w, inp.h))
           >= inp.st.minLandRegionSize
    /\ \A i \in WaterCells(out) :
         Cardinality(ComponentOf(i, WaterCells(out), inp.w, inp.h))
           >= inp.st.minWaterRegionSize

SingleSmallIsland(buf, w, h, minLand) ==
  /\ LandCells(buf) # {}
  /\ \A i \in LandCells(buf) : ComponentOf(i, LandCells(buf), w, h) = LandCells(buf)
  /\ Cardinality(LandCells(buf)) < minLand
  /\ \A i \in LandCells(buf) : Neighbours4(i, w, h) \cap WaterCells(buf) # {}

(* C10: when the encoded field is one land component smaller than          *)
(* minLandRegionSize in a sea of water, the final buffer has no land.      *)
C10_SmallIslandRemoved ==
  (pc = "done" /\ SingleSmallIsland(enc, inp.w, inp.h, inp.st.minLandRegionSize))
    => LandCells(out) = {}

-----------------------------------------------------------------------------
(* C11: for each resolution the manifest's num_land_tiles is the number of *)
(* cells of that resolution's buffer with IS_LAND set.                     *)
C11_ManifestCountsLand ==
  \A i \in Loaders :
    loaders[i].maps["Generated"] # NoProduct =>
      LET d == loaders[i].maps["Generated"][1]
      IN  /\ d.manifest.map.num_land_tiles = Cardinality(LandCells(d.mapBin))
          /\ d.manifest.map4x.num_land_tiles = Cardinality(LandCells(d.map4xBin))
          /\ d.manifest.map16x.num_land_tiles = Cardinality(LandCells(d.map16xBin))

C13_SetNotifiesIffChanged ==
  lastOp.op = "set" =>
    IF store # lastOp.before
    THEN \A f \in Fns :
           lastOp.got[f] = IF f \in SeqRange(lastOp.subs) THEN << store >>
                           ELSE <<>>
    ELSE lastOp.got = NoDelivery

(* C14: after any sequence of set() and reset() calls the stored           *)
(* parameters are validated: octaves in [1,12], the region sizes in        *)
(* [0,10000], smoothingRadius in [0,2], seed an unsigned 32-bit integer.   *)
C14_StoreValidated ==
  /\ store.octaves \in OctavesMin .. OctavesMax
  /\ store.minLandRegionSize \in 0 .. RegionSizeMax
  /\ store.minWaterRegionSize \in 0 .. RegionSizeMax
  /\ store.smoothingRadius \in 0 .. MaxSmoothingRadius
  /\ store.seed >= 0

(* C15: subscribe(fn) calls fn exactly once with the current snapshot and  *)
(* returns an unsubscribe function; once that function has been called, no *)
(* later set() or reset() delivers to fn.                                  *)
C15_SubscribeContract ==
  /\ lastOp.op = "subscribe" =>
        /\ lastOp.got[lastOp.fn] = << store >>
        /\ lastOp.returned
  /\ lastOp.op \in {"set", "reset"} =>
        \A f \in released : lastOp.got[f] = <<>>

Settled(k) == calls[k] \in {"fulfilled", "rejected"}

(* C16: over any number of initMapNationCounts calls loadNationCounts runs *)
(* at most once, the promises of the calls settle with the same outcome,   *)
(* and once one of them has resolved the nation-count cache is populated.  *)
C16_InitOnce ==
  /\ load.runs <= 1
  /\ \A j, k \in DOMAIN calls :
       (Settled(j) /\ Settled(k)) => calls[j] = calls[k]
  /\ \A k \in DOMAIN calls :
       calls[k] = "fulfilled" => nationCountCache # <<>>

C16_Witness ==
  /\ Len(calls) = MaxInitCalls
  /\ \A k \in DOMAIN calls : calls[k] = "fulfilled"
  /\ load.runs = 1
  /\ nationCountCache # <<>>

Rank(d) ==
  CASE d = "Easy" -> 0 [] d = "Medium" -> 1 [] d = "Hard" -> 2
    [] OTHER -> 3

(* C18: with h humans and n nations, h + n > 0, the difficulty is Easy     *)
(* below 25% humans, Medium from 25% to below 50%, Hard from 50% to below  *)
(* 75%, Impossible from 75%; and it never gets easier when h grows with n  *)
(* fixed.                                                                  *)
C18_DifficultyBands ==
  (diff.result # "none" /\ diff.h + diff.n > 0) =>
    /\ diff.result =
         IF 100 * diff.h < 25 * (diff.h + diff.n) THEN "Easy"
         ELSE IF 100 * diff.h < 50 * (diff.h + diff.n) THEN "Medium"
         ELSE IF 100 * diff.h < 75 * (diff.h + diff.n) THEN "Hard"
         ELSE "Impossible"
    /\ \A h2 \in diff.h .. MaxPlayers :
         Rank(calculateDifficulty(h2, diff.n)) >= Rank(diff.result)

C18_Witness ==
  /\ diff.result = "Medium"
  /\ diff.h > 0 /\ 4 * diff.h = diff.h + diff.n

(* C19: once a loader holds the Generated product, no step replaces or     *)
(* changes it, set() and reset() of the store included, and a later        *)
(* getMapData on that loader gives back that product without generating.   *)
C19_CachedProductKept ==
  [][\A i \in Loaders :
       loaders[i].maps["Generated"] # NoProduct =>
         /\ loaders'[i].maps["Generated"] = loaders[i].maps["Generated"]
         /\ GetMapData(i, "Generated") =>
              /\ last'.product = loaders[i].maps["Generated"]
              /\ last'.runs = 0]_vars

C19_Witness ==
  /\ last.via = "L1" /\ last.outcome = "ok" /\ last.repeat
  /\ last.product = loaders["L1"].maps["Generated"]
  /\ genStore["L1"][1].seed # store.seed
  /\ last.product # first[Combined] /\ first[Combined] # NoProduct

(* C20: the buffers of a loader constructed with explicit parameters do    *)
(* not depend on the store at call time: two loaders constructed with the  *)
(* same parameters hold the same buffers.                                  *)
C20_ExplicitParamsOnly ==
  \A i, j \in Loaders :
    (/\ genStore[i] # <<>> /\ genStore[j] # <<>>
     /\ loaders[i].params # <<>>
     /\ loaders[i].params = loaders[j].params)
      => Buffers(i) = Buffers(j)

-----------------------------------------------------------------------------
(* Pruning stated on a land/water view: land components smaller than       *)
(* minLand become water, then water components smaller than minWater       *)
(* become land.                                                            *)
LandPrunedView(land, w, h, minLand) ==
  {i \in land : Cardinality(ComponentOf(i, land, w, h)) >= minLand}

SmallWaterCells(land, w, h, minLand, minWater) ==
  LET water1 == Cells(w, h) \ LandPrunedView(land, w, h, minLand)
  IN  {i \in water1 : Cardinality(ComponentOf(i, water1, w, h)) < minWater}

PrunedLandView(land, w, h, minLand, minWater) ==
  LandPrunedView(land, w, h, minLand)
    \cup SmallWaterCells(land, w, h, minLand, minWater)

(* C21: the pruning pass works on the land/water view of the encoded       *)
(* buffer: the cells with IS_LAND set after pruning are those that pruning *)
(* the set of cells with IS_LAND set before it gives, whatever their       *)
(* magnitude, OCEAN or SHORELINE bits.                                     *)
C21_PruneOnLandView ==
  pc = "pruned" =>
    LandCells(out) =
      PrunedLandView(LandCells(enc), inp.w, inp.h,
                     inp.st.minLandRegionSize, inp.st.minWaterRegionSize)

(* C22: every cell of a water component smaller than minWaterRegionSize is *)
(* land after pruning, with IS_LAND set, OCEAN unset and magnitude 0.      *)
C22_SmallWaterBecomesLand ==
  pc = "pruned" =>
    \A i \in SmallWaterCells(LandCells(enc), inp.w, inp.h,
                             inp.st.minLandRegionSize, inp.st.minWaterRegionSize) :
      /\ IsLand(out[i])
      /\ ~IsOcean(out[i])
      /\ Magnitude(out[i]) = 0

-----------------------------------------------------------------------------
(* The land cells of the (2r+1) x (2r+1) window around i, clipped to the   *)
(* grid.                                                                   *)
ClippedLandWindow(buf, i, r, w, h) ==
  {Index(XOf(i, w) + dx, YOf(i, w) + dy, w) :
     <<dx, dy>> \in {d \in (-r .. r) \X (-r .. r) :
                       InBounds(XOf(i, w) + d[1], YOf(i, w) + d[2], w, h)}}
    \cap LandCells(buf)

(* m is the floor of the mean magnitude of the cells of S in buf.          *)
IsFloorMean(m, buf, S) ==
  /\ m * Cardinality(S) <= MagSum(buf, S)
  /\ MagSum(buf, S) < (m + 1) * Cardinality(S)

(* C23: with smoothing radius r in {1, 2}, the smoothing step gives each   *)
(* land cell the floor of the mean of the magnitudes that the land cells   *)
(* of its clipped (2r+1) x (2r+1) window had before the step; water cells  *)
(* enter neither the sum nor the count.                                    *)
C23_SmoothIsFloorMean ==
  [][(pc = "shoreline" /\ pc' = "smoothed"
        /\ SmoothRadius(inp.thisParams, inp.st) \in {1, 2})
      => \A i \in LandCells(out) :
           IsFloorMean(Magnitude(out'[i]), out,
                       ClippedLandWindow(out, i, SmoothRadius(inp.thisParams, inp.st),
                                         inp.w, inp.h))]_vars

(* A smoothed buffer where a land cell next to water changed magnitude.    *)
C23_Witness ==
  /\ pc = "smoothed"
  /\ SmoothRadius(inp.thisParams, inp.st) \in {1, 2}
  /\ \E i \in LandCells(out) :
       /\ Magnitude(out[i]) # Magnitude(enc[i])
       /\ Neighbours4(i, inp.w, inp.h) \cap WaterCells(out) # {}

-----------------------------------------------------------------------------
(* The flag bits of a byte: the byte without its magnitude.                *)
Flags(cell) == cell - Magnitude(cell)

MagnitudeStep ==
  \/ pc = "shoreline" /\ pc' = "smoothed"
  \/ pc = "smoothed" /\ pc' = "done"

(* C24: the smoothing and ridge steps change only the magnitude of land    *)
(* cells: IS_LAND, SHORELINE and OCEAN of every cell and every water byte  *)
(* are as before the step, and with smoothing radius 0 and ridge accent    *)
(* disabled the whole buffer is as before.                                 *)
C24_MagnitudeOnly ==
  [][MagnitudeStep =>
       /\ DOMAIN out' = DOMAIN out
       /\ \A i \in DOMAIN out :
            /\ Flags(out'[i]) = Flags(out[i])
            /\ ~IsLand(out[i]) => out'[i] = out[i]
       /\ (SmoothRadius(inp.thisParams, inp.st) = 0
             /\ ~EffectiveParams(inp.thisParams, inp.st).ridgeAccent)
            => out' = out]_vars

(* A finished buffer with water and shoreline cells in which the two steps *)
(* changed the magnitude of a land cell.                                   *)
C24_Witness ==
  /\ pc = "done"
  /\ WaterCells(out) # {}
  /\ \E i \in LandCells(out) : IsShoreline(out[i])
  /\ \E i \in LandCells(out) : Magnitude(out[i]) # Magnitude(enc[i])

(* Both steps skipped: radius 0 and ridge accent disabled, on a field with *)
(* land of differing magnitudes.                                           *)
C24_WitnessOff ==
  /\ pc = "done"
  /\ SmoothRadius(inp.thisParams, inp.st) = 0
  /\ ~EffectiveParams(inp.thisParams, inp.st).ridgeAccent
  /\ \E i, j \in LandCells(out) : Magnitude(out[i]) # Magnitude(out[j])

-----------------------------------------------------------------------------
(* C25, as stated: with ridge accent enabled, the ridge step boosts a land *)
(* cell by 2, clamped to 31, exactly when its magnitude before the step is *)
(* at least the mean magnitude of the land cells of its clipped 3 x 3      *)
(* window before the step, plus 2.                                         *)
C25_RidgeBoostExactMean ==
  [][(pc = "smoothed" /\ pc' = "done"
        /\ EffectiveParams(inp.thisParams, inp.st).ridgeAccent)
      => \A i \in LandCells(out) :
           \E S \in {ClippedLandWindow(out, i, 1, inp.w, inp.h)} :
             Magnitude(out'[i]) =
               IF Magnitude(out[i]) * Cardinality(S)
                    >= MagSum(out, S) + 2 * Cardinality(S)
               THEN Min2(MAG_MASK, Magnitude(out[i]) + 2)
               ELSE Magnitude(out[i])]_vars

(* C25, amended: with ridge accent enabled, the ridge step boosts a land   *)
(* cell by 2, clamped to 31, exactly when its magnitude before the step is *)
(* at least the floor of the mean magnitude of the land cells of its       *)
(* clipped 3 x 3 window before the step, plus 2; every other cell keeps    *)
(* its magnitude, and a boost never feeds another cell's test.             *)
C25_RidgeBoost ==
  [][(pc = "smoothed" /\ pc' = "done"
        /\ EffectiveParams(inp.thisParams, inp.st).ridgeAccent)
      => \A i \in LandCells(out) :
           \E S \in {ClippedLandWindow(out, i, 1, inp.w, inp.h)} :
           \E avg \in {MagSum(out, S) \div Cardinality(S)} :
             /\ IsFloorMean(avg, out, S)
             /\ Magnitude(out'[i]) =
                  IF Magnitude(out[i]) >= avg + 2
                  THEN Min2(MAG_MASK, Magnitude(out[i]) + 2)
                  ELSE Magnitude(out[i])]_vars

(* A finished buffer, ridge accent enabled, where one land cell was        *)
(* boosted and a land cell next to it was not.                             *)
C25_Witness ==
  /\ pc = "done"
  /\ EffectiveParams(inp.thisParams, inp.st).ridgeAccent
  /\ SmoothRadius(inp.thisParams, inp.st) = 0
  /\ \E i, j \in LandCells(out) :
       /\ Adjacent4(i, j, inp.w)
       /\ Magnitude(out[i]) = Min2(MAG_MASK, Magnitude(enc[i]) + 2)
       /\ Magnitude(out[j]) = Magnitude(enc[j])

-----------------------------------------------------------------------------
(* No octave is summed: the octave loop runs zero times.                   *)
Degenerate(st) == OctaveCount(st.octaves) = 0

(* C26: with a degenerate octave configuration (no octave summed, total    *)
(* amplitude 0) the divisor is 1, so every cell has field value 1/2 and is *)
(* land exactly when (1/2)^gamma exceeds the threshold; the run completes  *)
(* with a buffer of width * height cells that satisfies the bit            *)
(* invariants after every pass.                                            *)
C26_DegenerateOctaves ==
  (AfterPass("encoded") /\ Degenerate(inp.st)) =>
    /\ DOMAIN out = Cells(inp.w, inp.h)
    /\ BitInvariant(out)
    /\ \A i \in Cells(inp.w, inp.h) :
         IsLand(out[i]) <=>
           LandTest([num |-> 1, den |-> 2],
                    EffectiveParams(inp.thisParams, inp.st).contrastGamma, inp.t)

(* Finished degenerate runs: one all land, reached with threshold 0.       *)
C26_Witness ==
  /\ pc = "done"
  /\ Degenerate(inp.st)
  /\ inp.t = 0
  /\ LandCells(out) = Cells(inp.w, inp.h)

-----------------------------------------------------------------------------
(* Simplex2D construction (SpecPerm): two evaluators, each built from its  *)
(* own seed.                                                               *)

MaxPermSeed == 5

permRest ==
  << pipeVars, loaderVars, storeVars, nationVars, diff, delivered, modalVars >>

PermInit ==
  /\ LoaderInit /\ StoreObsInit /\ NationInit /\ diff = NoDiff
  /\ delivered = NoneDelivered /\ ModalInit
  /\ \E a, b \in 0 .. MaxPermSeed :
       builds = [k \in 1 .. 2 |-> [seed |-> IF k = 1 THEN a ELSE b,
                                   perm |-> NoTable]]

(* new Simplex2D(seed): this.perm = this.buildPermutation(seed)            *)
NewSimplex2D(k) ==
  /\ builds[k].perm = NoTable
  /\ builds' = [builds EXCEPT ![k].perm = buildPermutation(builds[k].seed)]
  /\ UNCHANGED permRest

PermNext == \E k \in 1 .. 2 : NewSimplex2D(k)

SpecPerm == PermInit /\ [][PermNext]_vars

Built(k) == builds[k].perm # NoTable

IsPermutation(t) ==
  /\ DOMAIN t = 0 .. PermSize - 1
  /\ {t[k] : k \in DOMAIN t} = 0 .. PermSize - 1

(* C27, as stated: the table built from any seed is a permutation of       *)
(* 0..255 without a fixed point, and equal seeds give equal tables.        *)
C27_PermutationDerangement ==
  /\ \A k \in 1 .. 2 :
       Built(k) => /\ IsPermutation(builds[k].perm)
                   /\ \A n \in 0 .. PermSize - 1 : builds[k].perm[n] # n
  /\ (Built(1) /\ Built(2) /\ builds[1].seed = builds[2].seed)
       => builds[1].perm = builds[2].perm

(* C27, amended: the table built from any seed is a permutation of 0..255, *)
(* each value exactly once, and equal seeds give equal tables.             *)
C27_Permutation ==
  /\ \A k \in 1 .. 2 : Built(k) => IsPermutation(builds[k].perm)
  /\ (Built(1) /\ Built(2) /\ builds[1].seed = builds[2].seed)
       => builds[1].perm = builds[2].perm

(* Two tables built from the same non-zero seed, with entries moved, and   *)
(* a table built from another seed that differs from them.                 *)
C27_Witness ==
  /\ Built(1) /\ Built(2)
  /\ builds[1].seed = builds[2].seed
  /\ builds[1].seed # 0
  /\ builds[1].perm # IdentityTable
  /\ builds[1].perm # buildPermutation(0)

-----------------------------------------------------------------------------
(* The store with subscribers that call it from inside their callback      *)
(* (SpecReentrant).  A call is evaluated to its end, nested calls          *)
(* included: st is the store's parameters and what each fn was last given. *)

ReUpdates ==
  { [field |-> "seed", value |-> 170],
    [field |-> "ridgeAccent", value |-> FALSE],
    [field |-> "smoothingRadius", value |-> MaxSmoothingRadius + 3] }

RECURSIVE notifyRe(_, _, _, _)
RECURSIVE Called(_, _, _, _)
RECURSIVE setRe(_, _, _)
RECURSIVE resetRe(_, _)

(* fn(snapshot): the body of the subscriber                                *)
Called(st, subs, fn, snapshot) ==
  Only({ IF fn = "f3" /\ ~snapshot.ridgeAccent
         THEN setRe(st1, subs, [field |-> "ridgeAccent", value |-> TRUE])
         ELSE IF fn = "f4" /\ snapshot.seed # DefaultSeed
         THEN resetRe(st1, subs)
         ELSE st1 :
           st1 \in {[st EXCEPT !.delivered[fn] = << snapshot >>]} })

(* notify(): the snapshot is taken once, before the loop                   *)
notifyRe(st, subs, k, snapshot) ==
  IF k > Len(subs) THEN st
  ELSE Only({notifyRe(st1, subs, k + 1, snapshot) :
               st1 \in {Called(st, subs, subs[k], snapshot)}})

setRe(st, subs, u) ==
  Only({ IF r.notified
         THEN notifyRe([st EXCEPT !.params = r.params], subs, 1, r.params)
         ELSE st :
           r \in {set(st.params, u)} })

resetRe(st, subs) ==
  notifyRe([st EXCEPT !.params = defaultParams], subs, 1, defaultParams)

StoreState == [params |-> store, delivered |-> delivered]

reRest ==
  << loaders, last, first, genStore, pipeVars, nationVars, diff, builds,
     modalVars, handles, released >>

ReOp(name, fn) ==
  [op |-> name, fn |-> fn, before |-> store, subs |-> subscribers,
   got |-> NoDelivery, returned |-> TRUE]

ReSet(u) ==
  /\ \E r \in {setRe(StoreState, subscribers, u)} :
       /\ store' = r.params
       /\ delivered' = r.delivered
  /\ lastOp' = ReOp("set", "none")
  /\ UNCHANGED << subscribers, reRest >>

ReReset ==
  /\ \E r \in {resetRe(StoreState, subscribers)} :
       /\ store' = r.params
       /\ delivered' = r.delivered
  /\ lastOp' = ReOp("reset", "none")
  /\ UNCHANGED << subscribers, reRest >>

(* subscribe(fn): fn is added, then called with the current snapshot       *)
ReSubscribe(fn) ==
  /\ \E subs \in {SetAdd(subscribers, fn)} :
     \E r \in {Called(StoreState, subs, fn, store)} :
       /\ subscribers' = subs
       /\ store' = r.params
       /\ delivered' = r.delivered
  /\ lastOp' = ReOp("subscribe", fn)
  /\ UNCHANGED reRest

ReUnsubscribe(fn) ==
  /\ fn \in SeqRange(subscribers)
  /\ subscribers' = Without(subscribers, fn)
  /\ lastOp' = ReOp("unsubscribe", fn)
  /\ UNCHANGED << store, delivered, reRest >>

ReentrantNext ==
  \/ \E u \in ReUpdates : ReSet(u)
  \/ ReReset
  \/ \E fn \in ReFns : ReSubscribe(fn)
  \/ \E fn \in ReFns : ReUnsubscribe(fn)

SpecReentrant == Init /\ [][ReentrantNext]_vars

(* C28: when a set() or reset() called from outside a callback has         *)
(* returned, the snapshot each subscribed listener was last called with is *)
(* the store's current parameters.                                         *)
C28_LastSnapshotCurrent ==
  lastOp.op \in {"set", "reset"} =>
    \A f \in SeqRange(subscribers) : delivered[f] = << store >>

-----------------------------------------------------------------------------
(* WinModal (SpecModal): tick(), show(), hide(), the continuation of       *)
(* show() after loadPatternContent, and the timer callback.                *)

MaxTicks == 3
MaxPending == 2

modalRest ==
  << pipeVars, loaderVars, storeVars, nationVars, diff, builds, delivered >>

(* this.game.myPlayer(): null, or a player that is alive or not and has    *)
(* spawned or not.                                                         *)
NoPlayer == [exists |-> FALSE, alive |-> FALSE, spawned |-> FALSE]
Players ==
  {NoPlayer} \cup {[exists |-> TRUE, alive |-> a, spawned |-> s] :
                     a \in BOOLEAN, s \in BOOLEAN}

(* The Win updates of a tick: none, or one whose winner is undefined, a    *)
(* team, a player, or a client id that is no player; mine says the winner  *)
(* is the local player or their team.                                      *)
WinUpdates ==
  {[kind |-> k, mine |-> m] :
     k \in {"none", "undefined", "team", "player", "notPlayer"},
     m \in BOOLEAN}

(* The local player exists, has spawned, is not alive, and the game is not *)
(* in the spawn phase.                                                     *)
LocalPlayerDied(player, inSpawnPhase) ==
  player.exists /\ ~player.alive /\ ~inSpawnPhase /\ player.spawned

(* Mutant: the flag is not consulted.                                      *)
ShowsDeathEveryTick(m, player, inSpawnPhase) ==
  LocalPlayerDied(player, inSpawnPhase)

(* !this.hasShownDeathModal && myPlayer && !myPlayer.isAlive() &&          *)
(* !this.game.inSpawnPhase() && myPlayer.hasSpawned()                      *)
ShowsDeath(m, player, inSpawnPhase) ==
  ~m.hasShownDeathModal /\ LocalPlayerDied(player, inSpawnPhase)

(* show() up to its await: loadPatternContent is started                   *)
show(m) == [m EXCEPT !.loading = @ + 1]

(* hide()                                                                  *)
hide(m) == [m EXCEPT !.isVisible = FALSE, !.showButtons = FALSE]

(* the death branch of tick                                                *)
DeathBranch(m, player, inSpawnPhase) ==
  IF ShowsDeath(m, player, inSpawnPhase)
  THEN show([m EXCEPT !.hasShownDeathModal = TRUE, !.title = "died"])
  ELSE m

WinShows(wu) == wu.kind \in {"team", "player"}

(* the body of winUpdates.forEach                                          *)
WinBranch(m, wu) ==
  CASE wu.kind = "team" ->
         show([m EXCEPT !.title = IF wu.mine THEN "your_team" ELSE "other_team",
                        !.isWin = wu.mine])
    [] wu.kind = "player" ->
         show([m EXCEPT !.title = IF wu.mine THEN "you_won" ELSE "other_won",
                        !.isWin = wu.mine])
    [] OTHER -> m

Tick(player, inSpawnPhase, wu) ==
  /\ modalLog.ticks < MaxTicks
  /\ wu.mine => player.exists
  /\ modal' = WinBranch(DeathBranch(modal, player, inSpawnPhase), wu)
  /\ modalLog' =
       [ticks |-> modalLog.ticks + 1,
        deathShows |-> modalLog.deathShows
                         + (IF ShowsDeath(modal, player, inSpawnPhase) THEN 1 ELSE 0),
        condBefore |-> modalLog.condBefore \/ modalLog.cond,
        cond |-> LocalPlayerDied(player, inSpawnPhase),
        death |-> ShowsDeath(modal, player, inSpawnPhase),
        sinceHide |-> modalLog.sinceHide
                        /\ ~ShowsDeath(modal, player, inSpawnPhase)
                        /\ ~WinShows(wu)]
  /\ UNCHANGED modalRest

(* show() called on the element                                            *)
Show ==
  /\ modal.loading + modal.timers < MaxPending
  /\ modal' = show(modal)
  /\ modalLog' = [modalLog EXCEPT !.sinceHide = FALSE]
  /\ UNCHANGED modalRest

(* show() after the await: isVisible = true, the timer is set              *)
ShowContinues ==
  /\ modal.loading > 0
  /\ modal' = [modal EXCEPT !.loading = @ - 1, !.isVisible = TRUE,
                            !.timers = @ + 1]
  /\ UNCHANGED << modalLog, modalRest >>

(* the callback given to setTimeout                                        *)
TimerFires ==
  /\ modal.timers > 0
  /\ modal' = [modal EXCEPT !.timers = @ - 1, !.showButtons = TRUE]
  /\ UNCHANGED << modalLog, modalRest >>

Hide ==
  /\ modal' = hide(modal)
  /\ modalLog' = [modalLog EXCEPT !.sinceHide = TRUE]
  /\ UNCHANGED modalRest

ModalNext ==
  \/ \E player \in Players, inSpawnPhase \in BOOLEAN, wu \in WinUpdates :
       Tick(player, inSpawnPhase, wu)
  \/ Show
  \/ ShowContinues
  \/ TimerFires
  \/ Hide

SpecModal == Init /\ [][ModalNext]_vars

(* C29: in every state of the modal showButtons is true only while         *)
(* isVisible is true, and from hide() until the next call of show() the    *)
(* modal is not visible and its buttons are not shown.                     *)
C29_ButtonsOnlyWhileVisible ==
  /\ modal.showButtons => modal.isVisible
  /\ modalLog.sinceHide => (~modal.isVisible /\ ~modal.showButtons)

(* C30: over the tick() calls the death branch calls show() at most once,  *)
(* with the title 'died', in the first tick in which the local player      *)
(* exists, has spawned, is not alive and the game is not in its spawn      *)
(* phase, and in no other tick.                                            *)
C30_DeathModalOnce ==
  /\ modalLog.deathShows <= 1
  /\ modalLog.death <=> (modalLog.cond /\ ~modalLog.condBefore)
  /\ (modalLog.cond \/ modalLog.condBefore) <=> modalLog.deathShows = 1
  /\ modal.hasShownDeathModal <=> modalLog.deathShows = 1

(* The local player is seen dead in a second tick: no second death modal.  *)
C30_Witness ==
  /\ modalLog.ticks >= 2
  /\ modalLog.cond /\ modalLog.condBefore
  /\ ~modalLog.death
  /\ modalLog.deathShows = 1
  /\ modal.hasShownDeathModal

=============================================================================
